---- MODULE Spec2Model ----
(***************************************************************************)
(* Model of SW/server/center.py: the topology server of the mesh.          *)
(*                                                                         *)
(*   graph            the module-level dict  edge -> data, guarded by      *)
(*                    graph_lock; a Python dict iterates in insertion      *)
(*                    order, so it is a sequence of entries with distinct  *)
(*                    edges                                                *)
(*   receiver_thread  merges the edges of one datagram (last writer wins   *)
(*                    by reported timestamp)                               *)
(*   cleaner_thread   deletes the edges older than EDGE_TIMEOUT            *)
(*   dijkstra, bfs    queries over the adjacency built from the graph      *)
(*                                                                         *)
(* The server is modelled at two grains.  In the first every handler is one *)
(* step (RxHandle, Sweep, CmdPath, ...).  In the second the three threads   *)
(* take graph_lock and run their loops one dict entry at a time: lock is    *)
(* the holder of graph_lock, pc the place of each thread and loc its       *)
(* locals; snap remembers the graph as it was when the command loop last    *)
(* took the lock.                                                          *)
(*                                                                         *)
(* Node ids and edge keys are strings in the program and sequences of       *)
(* characters here; sorted() and the tuple comparison of heapq compare     *)
(* them as Python compares strings.                                        *)
(***************************************************************************)
EXTENDS Integers, Sequences, FiniteSets, TLC

VARIABLES graph, now, packet, out, arrived, newest, lock, pc, loc, snap
vars == <<graph, now, packet, out, arrived, newest, lock, pc, loc, snap>>

\* ------------------------------------------------------------------ bounds
\* the longest graph (in edges) the queries are run on
MaxStoreLen == 3
\* the most upserts to one edge that are followed
MaxArrivals == 3
\* how far past EDGE_TIMEOUT the clock is followed
MaxOverdue == 2

\* -------------------------------------------------------- program constants
EDGE_TIMEOUT == 15
\* float('inf')
Inf == 1000000
\* the separator of k_str.split(',')
Comma == 0

\* A string is the sequence of its characters; the characters of node ids are
\* 1, 2, 3 (for 'a' < 'b' < 'c').  None is written as a string that is no node
\* id and no field of a key: a field never holds a comma.
None == <<Comma>>
Str(c) == <<c>>
\* the node ids the commands are given
Nodes == {Str(1), Str(2), Str(3)}
\* the node ids the datagrams name
ReportIds == {Str(1), Str(2), Str(3)}
Rssis == {-3, -1}
Stamps == {0, 1}
Datas == [rssi : Rssis, timestamp : Stamps]
\* the clock readings: with the stamps above no reading up to EDGE_TIMEOUT
\* expires anything
Clock == {0} \cup (EDGE_TIMEOUT .. EDGE_TIMEOUT + MaxOverdue)
PacketSizes == 1 .. 2
\* path is None
NoPath == << >>

\* ------------------------------------------------------ sequence helpers
Range(s) == {s[i] : i \in DOMAIN s}

RECURSIVE SeqsUpTo(_, _)
\* all sequences over S of length at most n
SeqsUpTo(S, n) ==
  IF n = 0 THEN {<< >>}
  ELSE LET shorter == SeqsUpTo(S, n - 1)
       IN  shorter \cup {Append(s, x) : s \in {t \in shorter : Len(t) = n - 1}, x \in S}

\* ------------------------------------------------------------ Python dict
\* A dict is a sequence of <<key, value>> entries with distinct keys.
Keys(d) == {d[i][1] : i \in DOMAIN d}
Has(d, k) == k \in Keys(d)
Index(d, k) == CHOOSE i \in DOMAIN d : d[i][1] = k
Get(d, k) == d[Index(d, k)][2]
\* d[k] = v : an existing key keeps its place, a new key goes last
Put(d, k, v) ==
  IF Has(d, k) THEN [d EXCEPT ![Index(d, k)] = <<k, v>>]
  ELSE Append(d, <<k, v>>)
\* del d[k]
Del(d, k) == SelectSeq(d, LAMBDA e : e[1] # k)

\* ---------------------------------------------------------- Python str
\* a < b for strings
StrLess(a, b) ==
  \E k \in 1 .. Len(b) :
    /\ \A i \in 1 .. k - 1 : i <= Len(a) /\ a[i] = b[i]
    /\ (k > Len(a) \/ (k - 1 < Len(a) /\ a[k] < b[k]))

RECURSIVE SplitFrom(_, _, _, _)
SplitFrom(text, i, field, fields) ==
  IF i > Len(text) THEN Append(fields, field)
  ELSE IF text[i] = Comma THEN SplitFrom(text, i + 1, << >>, Append(fields, field))
  ELSE SplitFrom(text, i + 1, Append(field, text[i]), fields)

\* text.split(',')
Split(text) == SplitFrom(text, 1, << >>, << >>)

\* ------------------------------------------------------------ JSON values
\* A datagram that decodes to a JSON object is the record of the fields the object
\* has (sender, edges).  Any other datagram is [raw |-> r], where r tells how far
\* the decoding gets:
\*   "bytes"   no UTF-8 text: packet.decode raises UnicodeDecodeError
\*   "text"    no JSON: json.loads raises JSONDecodeError
\*   "array"   JSON, but no object: data.get raises AttributeError
\* A value of data["edges"] is the record of the fields it has (rssi, timestamp), or
\* [scalar |-> n] for a JSON number.
HasKey(v, k) == k \in DOMAIN v
IsDict(v) == ~HasKey(v, "scalar")

\* ------------------------------------------------------------ center.py
\* the pair left as it came
get_canonical_edge_unsorted(node1, node2) == <<node1, node2>>

\* tuple(sorted((node1, node2)))
get_canonical_edge(node1, node2) ==
  IF StrLess(node2, node1) THEN <<node2, node1>> ELSE <<node1, node2>>

RECURSIVE ParseEdges(_, _, _)
\* the loop of parse_packet over data["edges"].items(): only the keys of two
\* fields are kept, and a later entry with the same canonical edge overwrites the
\* value of an earlier one
ParseEdges(items, i, edges_from_packet) ==
  IF i > Len(items) THEN edges_from_packet
  ELSE LET nodes == Split(items[i][1])
           v == items[i][2]
       IN  IF Len(nodes) = 2
           THEN ParseEdges(items, i + 1,
                  Put(edges_from_packet, get_canonical_edge(nodes[1], nodes[2]), v))
           ELSE ParseEdges(items, i + 1, edges_from_packet)

\* a sender taken for granted when the object names none
SenderOf_assumed(data) == IF HasKey(data, "sender") THEN data.sender ELSE Str(1)

\* data.get("sender")
SenderOf(data) == IF HasKey(data, "sender") THEN data.sender ELSE None

\* data.get("edges", {}).items()
Items(data) == IF HasKey(data, "edges") THEN data.edges ELSE << >>

\* parse_packet: <<sender, edges_from_packet>>, and <<None, None>> when json.loads or
\* data.get raises
parse_packet(packet_json) ==
  IF HasKey(packet_json, "raw") THEN <<None, None>>
  ELSE <<SenderOf(packet_json), ParseEdges(Items(packet_json), 1, << >>)>>

\* not sender_id: None and the empty string
Falsy(sender_id) == sender_id = None \/ sender_id = << >>

\* v['timestamp'] raises: KeyError for a dict without the key, TypeError for a number
NoStamp(v) == ~IsDict(v) \/ ~HasKey(v, "timestamp")

\* the condition of the merge raises: both timestamps are read once the edge is
\* found in graph
MergeRaises(g, edge, data) == Has(g, edge) /\ (NoStamp(data) \/ NoStamp(Get(g, edge)))

RECURSIVE MergeEdges_acceptequal(_, _, _)
\* the merge loop with >= for >
MergeEdges_acceptequal(st, received_edges, i) ==
  IF i > Len(received_edges) THEN st
  ELSE LET edge == received_edges[i][1]
           data == received_edges[i][2]
       IN  IF MergeRaises(st.graph, edge, data) THEN [st EXCEPT !.raised = TRUE]
           ELSE IF ~Has(st.graph, edge) \/ data.timestamp >= Get(st.graph, edge).timestamp
           THEN MergeEdges_acceptequal([st EXCEPT !.graph = Put(st.graph, edge, data),
                                                  !.written = Append(st.written, edge)],
                                       received_edges, i + 1)
           ELSE MergeEdges_acceptequal(st, received_edges, i + 1)

RECURSIVE MergeEdges_lastarrival(_, _, _)
\* the merge loop with no look at the timestamps
MergeEdges_lastarrival(st, received_edges, i) ==
  IF i > Len(received_edges) THEN st
  ELSE MergeEdges_lastarrival(
         [st EXCEPT !.graph = Put(st.graph, received_edges[i][1], received_edges[i][2]),
                    !.written = Append(st.written, received_edges[i][1])],
         received_edges, i + 1)

RECURSIVE MergeEdges(_, _, _)
\* the loop of receiver_thread under graph_lock; st = [graph, written, raised],
\* where written lists the edges the loop assigned (it is read by no code) and
\* raised tells that the loop was left by an exception, which ends it where it is
MergeEdges(st, received_edges, i) ==
  IF i > Len(received_edges) THEN st
  ELSE LET edge == received_edges[i][1]
           data == received_edges[i][2]
       IN  IF MergeRaises(st.graph, edge, data) THEN [st EXCEPT !.raised = TRUE]
           ELSE IF ~Has(st.graph, edge) \/ data.timestamp > Get(st.graph, edge).timestamp
           THEN MergeEdges([st EXCEPT !.graph = Put(st.graph, edge, data),
                                      !.written = Append(st.written, edge)],
                           received_edges, i + 1)
           ELSE MergeEdges(st, received_edges, i + 1)

\* packet.decode('utf-8') raises
Undecodable(packet_str) == HasKey(packet_str, "raw") /\ packet_str.raw = "bytes"

\* one turn of the loop of receiver_thread on the datagram packet_str
Received(g, packet_str) ==
  IF Undecodable(packet_str) THEN [graph |-> g, written |-> << >>, raised |-> TRUE]
  ELSE LET parsed == parse_packet(packet_str)
       IN  IF Falsy(parsed[1]) THEN [graph |-> g, written |-> << >>, raised |-> FALSE]
           ELSE MergeEdges([graph |-> g, written |-> << >>, raised |-> FALSE], parsed[2], 1)

\* the collection with >= for >
edges_to_delete_atlimit(g, t) ==
  LET old == SelectSeq(g, LAMBDA e : t - e[2].timestamp >= EDGE_TIMEOUT)
  IN  [i \in DOMAIN old |-> old[i][1]]

\* cleaner_thread: the edges collected for deletion at time t, in dict order
edges_to_delete(g, t) ==
  LET old == SelectSeq(g, LAMBDA e : t - e[2].timestamp > EDGE_TIMEOUT)
  IN  [i \in DOMAIN old |-> old[i][1]]

\* the deletion that stops after the first edge
DeleteAll_first(g, edges, i) == IF edges = << >> THEN g ELSE Del(g, edges[1])

RECURSIVE DeleteAll(_, _, _)
DeleteAll(g, edges, i) ==
  IF i > Len(edges) THEN g ELSE DeleteAll(Del(g, edges[i]), edges, i + 1)

\* the graph after one sweep of cleaner_thread at time t
Swept(g, t) == DeleteAll(g, edges_to_delete(g, t), 1)

\* weight = abs(data.get('rssi', -100))
Weight(data) ==
  LET rssi == IF HasKey(data, "rssi") THEN data.rssi ELSE -100
  IN  IF rssi < 0 THEN 0 - rssi ELSE rssi

RECURSIVE BuildAdj_oneway(_, _, _)
\* the adjacency with the direction from u to v only
BuildAdj_oneway(g, i, adj) ==
  IF i > Len(g) THEN adj
  ELSE LET u == g[i][1][1]
           v == g[i][1][2]
           weight == Weight(g[i][2])
           a1 == IF Has(adj, u) THEN adj ELSE Put(adj, u, << >>)
           a2 == IF Has(a1, v) THEN a1 ELSE Put(a1, v, << >>)
           a3 == Put(a2, u, Append(Get(a2, u), <<v, weight>>))
       IN  BuildAdj_oneway(g, i + 1, a3)

RECURSIVE BuildAdj(_, _, _)
\* build_adjacency_list: adj as a dict node -> list of <<neighbour, weight>>
BuildAdj(g, i, adj) ==
  IF i > Len(g) THEN adj
  ELSE LET u == g[i][1][1]
           v == g[i][1][2]
           weight == Weight(g[i][2])
           a1 == IF Has(adj, u) THEN adj ELSE Put(adj, u, << >>)
           a2 == IF Has(a1, v) THEN a1 ELSE Put(a1, v, << >>)
           a3 == Put(a2, u, Append(Get(a2, u), <<v, weight>>))
           a4 == Put(a3, v, Append(Get(a3, v), <<u, weight>>))
       IN  BuildAdj(g, i + 1, a4)

build_adjacency_list(g) == BuildAdj(g, 1, << >>)

\* adj.get(node, [])
Neighbours(adj, node) == IF Has(adj, node) THEN Get(adj, node) ELSE << >>

\* a queue for the heap: the oldest entry is popped
HeapMin_oldest(pq) == 1

\* heapq orders the <<distance, node>> tuples lexicographically
TupleLess(a, b) == a[1] < b[1] \/ (a[1] = b[1] /\ StrLess(a[2], b[2]))
\* the index of the tuple heappop returns
HeapMin(pq) == CHOOSE i \in DOMAIN pq : \A j \in DOMAIN pq : ~TupleLess(pq[j], pq[i])
Remove(s, i) == [j \in 1 .. Len(s) - 1 |-> IF j < i THEN s[j] ELSE s[j + 1]]

RECURSIVE Relax_firstparent(_, _, _, _, _)
\* the relaxation that records a predecessor only for a node that has none yet
Relax_firstparent(nbrs, i, current_node, current_distance, st) ==
  IF i > Len(nbrs) THEN st
  ELSE LET neighbor == nbrs[i][1]
           distance == current_distance + nbrs[i][2]
       IN  IF distance < st.distances[neighbor]
           THEN Relax_firstparent(nbrs, i + 1, current_node, current_distance,
                  [distances |-> [st.distances EXCEPT ![neighbor] = distance],
                   previous_nodes |->
                     IF st.previous_nodes[neighbor] = None
                     THEN [st.previous_nodes EXCEPT ![neighbor] = current_node]
                     ELSE st.previous_nodes,
                   pq |-> Append(st.pq, <<distance, neighbor>>)])
           ELSE Relax_firstparent(nbrs, i + 1, current_node, current_distance, st)

RECURSIVE Relax(_, _, _, _, _)
\* the for loop over the neighbours of current_node; st = [distances, previous_nodes, pq]
Relax(nbrs, i, current_node, current_distance, st) ==
  IF i > Len(nbrs) THEN st
  ELSE LET neighbor == nbrs[i][1]
           distance == current_distance + nbrs[i][2]
       IN  IF distance < st.distances[neighbor]
           THEN Relax(nbrs, i + 1, current_node, current_distance,
                  [distances |-> [st.distances EXCEPT ![neighbor] = distance],
                   previous_nodes |-> [st.previous_nodes EXCEPT ![neighbor] = current_node],
                   pq |-> Append(st.pq, <<distance, neighbor>>)])
           ELSE Relax(nbrs, i + 1, current_node, current_distance, st)

RECURSIVE DijkstraLoop(_, _, _)
\* while pq: ... ; the state when the loop is left
DijkstraLoop(adj, end_node, st) ==
  IF st.pq = << >> THEN st
  ELSE LET m == HeapMin(st.pq)
           current_distance == st.pq[m][1]
           current_node == st.pq[m][2]
           popped == [st EXCEPT !.pq = Remove(st.pq, m)]
       IN  IF current_distance > st.distances[current_node]
           THEN DijkstraLoop(adj, end_node, popped)
           ELSE IF current_node = end_node
           THEN popped
           ELSE DijkstraLoop(adj, end_node,
                  Relax(Neighbours(adj, current_node), 1, current_node,
                        current_distance, popped))

RECURSIVE BuildPath(_, _, _)
\* while current is not None: path.insert(0, current); current = previous_nodes[current]
\* a chain that comes back to a node of path would keep the loop running for ever:
\* the path is then given with that node in it twice
BuildPath(previous_nodes, current, path) ==
  IF current = None THEN path
  ELSE IF current \in Range(path) THEN <<current>> \o path
  ELSE BuildPath(previous_nodes, previous_nodes[current], <<current>> \o path)

\* return None, float('inf')
NotFound == [path |-> NoPath, cost |-> Inf]

\* if start_node not in adj or end_node not in adj
UnknownEndpoint(adj, start_node, end_node) ==
  ~Has(adj, start_node) \/ ~Has(adj, end_node)

\* the start state without distances[start_node] = 0
InitState_nozero(adj, start_node) ==
  [distances |-> [n \in Keys(adj) |-> Inf],
   previous_nodes |-> [n \in Keys(adj) |-> None],
   pq |-> << <<0, start_node>> >>]

\* the start state with every node its own predecessor
InitState_selfparent(adj, start_node) ==
  [distances |-> [n \in Keys(adj) |-> IF n = start_node THEN 0 ELSE Inf],
   previous_nodes |-> [n \in Keys(adj) |-> n],
   pq |-> << <<0, start_node>> >>]

\* distances, previous_nodes and pq before the loop
InitState(adj, start_node) ==
  [distances |-> [n \in Keys(adj) |-> IF n = start_node THEN 0 ELSE Inf],
   previous_nodes |-> [n \in Keys(adj) |-> None],
   pq |-> << <<0, start_node>> >>]

\* the result without the look at path[0]
PathResult_unchecked(path, start_node, distance) == [path |-> path, cost |-> distance]

\* if path[0] == start_node: return path, distances[end_node]
PathResult(path, start_node, distance) ==
  IF path[1] = start_node THEN [path |-> path, cost |-> distance] ELSE NotFound

\* dijkstra after adj = build_adjacency_list(): [path, cost]
dijkstra_adj(adj, start_node, end_node) ==
  IF UnknownEndpoint(adj, start_node, end_node) THEN NotFound
  ELSE LET st == DijkstraLoop(adj, end_node, InitState(adj, start_node))
           path == BuildPath(st.previous_nodes, end_node, << >>)
       IN  PathResult(path, start_node, st.distances[end_node])

\* dijkstra(start_node, end_node) on graph g
dijkstra(g, start_node, end_node) ==
  dijkstra_adj(build_adjacency_list(g), start_node, end_node)

RECURSIVE BfsVisit(_, _, _)
\* the for loop over the neighbours of node; st = [visited, queue]
BfsVisit(nbrs, i, st) ==
  IF i > Len(nbrs) THEN st
  ELSE LET neighbor == nbrs[i][1]
       IN  IF neighbor \notin st.visited
           THEN BfsVisit(nbrs, i + 1,
                  [visited |-> st.visited \cup {neighbor},
                   queue |-> Append(st.queue, neighbor)])
           ELSE BfsVisit(nbrs, i + 1, st)

RECURSIVE BfsLoop(_, _, _)
BfsLoop(adj, st, reachable_nodes) ==
  IF st.queue = << >> THEN reachable_nodes
  ELSE LET node == Head(st.queue)
       IN  BfsLoop(adj,
             BfsVisit(Neighbours(adj, node), 1, [st EXCEPT !.queue = Tail(st.queue)]),
             Append(reachable_nodes, node))

\* the traversal started from any name
BfsUnknown_never(adj, start_node) == FALSE

\* if start_node not in adj: return []
BfsUnknown(adj, start_node) == ~Has(adj, start_node)

\* bfs after adj = build_adjacency_list()
bfs_adj(adj, start_node) ==
  IF BfsUnknown(adj, start_node) THEN << >>
  ELSE BfsLoop(adj, [visited |-> {start_node}, queue |-> <<start_node>>], << >>)

\* bfs(start_node) on graph g
bfs(g, start_node) == bfs_adj(build_adjacency_list(g), start_node)

RECURSIVE sorted(_)
\* sorted(S) for a set of strings
sorted(S) ==
  IF S = {} THEN << >>
  ELSE LET least == CHOOSE x \in S : \A y \in S : ~StrLess(y, x)
       IN  <<least>> \o sorted(S \ {least})

\* ------------------------------------------------------------- the inputs
\* the canonical edges get_canonical_edge can give over Nodes (a self pair too)
Edges == {get_canonical_edge(a, b) : a, b \in Nodes}
QueryDatas == [rssi : {-3, -1, 2}, timestamp : {0}]

DistinctKeys(d) == \A i, j \in DOMAIN d : d[i][1] = d[j][1] => i = j

\* the graphs the queries are run on: every dict of at most MaxStoreLen edges, in
\* every insertion order; the queries read no timestamp, which is left 0
QueryGraphs ==
  {g \in SeqsUpTo(Edges \X QueryDatas, MaxStoreLen) : DistinctKeys(g)}

\* the datagrams: one or two reports of the links of node 1 to nodes 2 and 3, each
\* keyed "x,y" in either order; a datagram with a key of one field or of three, or
\* without a sender, carries one report
KeyTexts ==
  {k[1] \o <<Comma>> \o k[2] :
     k \in {x \in ReportIds \X ReportIds : x[1] # x[2] /\ Str(1) \in {x[1], x[2]}}}
OddTexts == {Str(1), Str(1) \o <<Comma>> \o Str(2) \o <<Comma>> \o Str(3)}
EdgeLists(texts, sizes) ==
  {l \in SeqsUpTo(texts \X Datas, 2) : Len(l) \in sizes /\ DistinctKeys(l)}
Senders == {None, Str(1)}
SinglePackets == [sender : Senders, edges : EdgeLists(KeyTexts \cup OddTexts, {1})]
Packets == SinglePackets \cup [sender : {Str(1)}, edges : EdgeLists(KeyTexts, PacketSizes)]

\* ------------------------------------------------------------ the tasks
\* out is what the last handler produced; Idle while nothing is to be told
Idle == [op |-> "none"]

\* the edge whose upserts arrived follows
Watched == get_canonical_edge(Str(1), Str(2))

Max2(a, b) == IF a >= b THEN a ELSE b

RECURSIVE NoteNewest(_, _, _)
\* newest after the merge loop has run over received_edges
NoteNewest(seen, received_edges, i) ==
  IF i > Len(received_edges) THEN seen
  ELSE LET edge == received_edges[i][1]
           t == received_edges[i][2].timestamp
       IN  NoteNewest(Put(seen, edge, IF Has(seen, edge) THEN Max2(Get(seen, edge), t) ELSE t),
                      received_edges, i + 1)

\* receiver_thread: recvfrom returns a datagram; packet is <<the datagram>> until
\* the turn of the loop is over, and << >> while the thread waits in recvfrom
RxRecv(pkt) ==
  /\ packet = << >>
  /\ packet' = <<pkt>>
  /\ out' = Idle
  /\ UNCHANGED <<graph, now, arrived, newest, lock, pc, loc, snap>>

\* receiver_thread: the datagram is parsed and merged, and the message of the
\* except clause is printed when an exception ended the turn; track names the
\* history variable that is kept ("arrived", "newest" or none)
RxHandle(track) ==
  /\ packet # << >>
  /\ LET parsed == parse_packet(packet[1])
         merged == Received(graph, packet[1])
         edges == IF Falsy(parsed[1]) THEN << >> ELSE parsed[2]
     IN  /\ graph' = merged.graph
         /\ out' = [op |-> "recv", entries |-> Len(Items(packet[1])),
                    applied |-> Len(merged.written),
                    rejected |-> Len(edges) - Len(merged.written),
                    skipped |-> ~Undecodable(packet[1]) /\ Falsy(parsed[1]),
                    error |-> merged.raised]
         /\ arrived' = IF track = "arrived" /\ Has(edges, Watched)
                       THEN Append(arrived, Get(edges, Watched)) ELSE arrived
         /\ newest' = IF track = "newest" THEN NoteNewest(newest, edges, 1) ELSE newest
  /\ packet' = << >>
  /\ UNCHANGED <<now, lock, pc, loc, snap>>

\* cleaner_thread: one sweep, the whole critical section; count is the number the
\* message prints (no message when it is 0)
Sweep ==
  /\ graph' = Swept(graph, now)
  /\ out' = [op |-> "sweep", count |-> Len(edges_to_delete(graph, now))]
  /\ UNCHANGED <<now, packet, arrived, newest, lock, pc, loc, snap>>

\* time passes
Tick ==
  /\ \E t \in Clock : t > now /\ now' = t
  /\ UNCHANGED <<graph, packet, out, arrived, newest, lock, pc, loc, snap>>

\* path [start_node] [end_node]
CmdPath(start_node, end_node) ==
  /\ out = Idle
  /\ out' = [op |-> "path", start |-> start_node, end |-> end_node,
             res |-> dijkstra(graph, start_node, end_node)]
  /\ UNCHANGED <<graph, now, packet, arrived, newest, lock, pc, loc, snap>>

\* bfs [start_node]
CmdBfs(start_node) ==
  /\ out = Idle
  /\ out' = [op |-> "bfs", start |-> start_node, res |-> bfs(graph, start_node)]
  /\ UNCHANGED <<graph, now, packet, arrived, newest, lock, pc, loc, snap>>

\* nodes
CmdNodes ==
  /\ out = Idle
  /\ out' = [op |-> "nodes", adj |-> build_adjacency_list(graph),
             res |-> sorted(Keys(build_adjacency_list(graph)))]
  /\ UNCHANGED <<graph, now, packet, arrived, newest, lock, pc, loc, snap>>

\* the command loop is back at input(): the last result has been printed
Prompt ==
  /\ out # Idle
  /\ out' = Idle
  /\ UNCHANGED <<graph, now, packet, arrived, newest, lock, pc, loc, snap>>

\* ------------------------------------------- the threads, entry by entry
\* graph_lock is held by no thread
Free == "free"
\* where the threads are when the server has started: the receiver waits in
\* recvfrom, the cleaner sleeps, the command loop waits in input
Start == [rx |-> "recvfrom", cl |-> "sleep", cmd |-> "input"]
\* the locals: received_edges is what parse_packet returned for the datagram that
\* is being merged and i indexes received_edges.items() in receiver_thread; now,
\* edges_to_delete and j (the index of the running for loop) belong to
\* cleaner_thread; cmd (<<the command>> while one is served), adj, items (the
\* sorted list of the map command) and k (the index of the running for loop) to the
\* command loop; sock is the socket of receiver_thread, "open" while recvfrom can
\* return a datagram
Locals ==
  [i |-> 0, now |-> 0, edges_to_delete |-> << >>, j |-> 0,
   cmd |-> << >>, adj |-> << >>, items |-> << >>, k |-> 0, sock |-> "open",
   received_edges |-> << >>]

\* the lock taken by build_adjacency_list whoever holds it
Acquirable_adj(l, site) == l = Free \/ site = "adj"
\* the lock taken by cleaner_thread whoever holds it
Acquirable_cl(l, site) == l = Free \/ site = "cl"
\* the lock taken by receiver_thread whoever holds it
Acquirable_rx(l, site) == l = Free \/ site = "rx"
\* the lock taken by the map command whoever holds it
Acquirable_map(l, site) == l = Free \/ site = "map"
\* "with graph_lock:" is entered at site (rx, cl, adj or map) when the lock is l
Acquirable(l, site) == l = Free

\* a with statement that keeps the lock
Released_kept(l) == l
\* a lock the receiver takes and never gives back
Released_notrx(l) == IF l = "rx" THEN l ELSE Free
\* the lock after the with statement is left, at its end or by an exception
Released(l) == Free

\* the thread ends with its first exception
rx_except_ends == "ended"
\* except Exception: print, and the while loop goes on
rx_except == "recvfrom"

\* print(f"[RX Thread] Error: {e}")
RxError(at) == [op |-> "rxerror", at |-> at]
\* print(f"  오류 발생: {e}")
CmdError == [op |-> "error"]

\* the order of sorted() on the keys of graph: tuples of two strings
EdgeLess(a, b) == StrLess(a[1], b[1]) \/ (a[1] = b[1] /\ StrLess(a[2], b[2]))

RECURSIVE SortedItems(_)
\* sorted(graph.items())
SortedItems(g) ==
  IF g = << >> THEN << >>
  ELSE LET m == CHOOSE i \in DOMAIN g : \A j \in DOMAIN g : ~EdgeLess(g[j][1], g[i][1])
       IN  <<g[m]>> \o SortedItems(Remove(g, m))

\* receiver_thread: recvfrom returns pkt, which is decoded and parsed; a datagram
\* that names a sender is kept for the merge
rx_recvfrom(pkt) ==
  /\ pc.rx = "recvfrom"
  /\ loc.sock = "open"
  /\ IF Undecodable(pkt)
     THEN /\ out' = RxError("decode")
          /\ pc' = [pc EXCEPT !.rx = rx_except]
          /\ UNCHANGED <<packet, loc>>
     ELSE IF Falsy(parse_packet(pkt)[1])
     THEN UNCHANGED <<out, pc, packet, loc>>
     ELSE /\ packet' = <<pkt>>
          /\ loc' = [loc EXCEPT !.received_edges = parse_packet(pkt)[2]]
          /\ pc' = [pc EXCEPT !.rx = "lock"]
          /\ UNCHANGED out
  /\ UNCHANGED <<graph, now, arrived, newest, lock, snap>>

\* the socket fails for good: from now on every recvfrom raises
sock_fails ==
  /\ loc.sock = "open"
  /\ loc' = [loc EXCEPT !.sock = "closed"]
  /\ UNCHANGED <<graph, now, packet, out, arrived, newest, lock, pc, snap>>

\* receiver_thread: recvfrom raises
rx_oserror ==
  /\ pc.rx = "recvfrom"
  /\ out' = RxError("recvfrom")
  /\ pc' = [pc EXCEPT !.rx = rx_except]
  /\ UNCHANGED <<graph, now, packet, arrived, newest, lock, loc, snap>>

\* receiver_thread: with graph_lock
rx_lock ==
  /\ pc.rx = "lock"
  /\ Acquirable(lock, "rx")
  /\ lock' = "rx"
  /\ pc' = [pc EXCEPT !.rx = "merge"]
  /\ loc' = [loc EXCEPT !.i = 1]
  /\ UNCHANGED <<graph, now, packet, out, arrived, newest, snap>>

\* receiver_thread: one entry of received_edges is merged; the with statement is
\* left after the last entry, or at once when the entry raises
rx_merge ==
  /\ pc.rx = "merge"
  /\ LET received_edges == loc.received_edges
         st0 == [graph |-> graph, written |-> << >>, raised |-> FALSE]
         st == IF loc.i > Len(received_edges) THEN st0
               ELSE MergeEdges(st0, <<received_edges[loc.i]>>, 1)
     IN  /\ graph' = st.graph
         /\ out' = IF st.raised THEN RxError("merge") ELSE out
         /\ IF st.raised \/ loc.i >= Len(received_edges)
            THEN /\ lock' = Released(lock)
                 /\ pc' = [pc EXCEPT !.rx = IF st.raised THEN rx_except ELSE "recvfrom"]
                 /\ loc' = [loc EXCEPT !.i = 0, !.received_edges = << >>]
                 /\ packet' = << >>
            ELSE /\ loc' = [loc EXCEPT !.i = loc.i + 1]
                 /\ UNCHANGED <<lock, pc, packet>>
  /\ UNCHANGED <<now, arrived, newest, snap>>

\* cleaner_thread: sleep is over, the lock is taken and the clock is read
cl_lock ==
  /\ pc.cl = "sleep"
  /\ Acquirable(lock, "cl")
  /\ lock' = "cl"
  /\ pc' = [pc EXCEPT !.cl = "scan"]
  /\ loc' = [loc EXCEPT !.now = now, !.edges_to_delete = << >>, !.j = 1]
  /\ UNCHANGED <<graph, now, packet, out, arrived, newest, snap>>

\* cleaner_thread: one entry of graph is looked at; an entry without a timestamp
\* raises, which ends the thread; after the last entry the deletions follow, or the
\* with statement is left when there are none
cl_scan ==
  /\ pc.cl = "scan"
  /\ LET empty == loc.j > Len(graph)
         raises == ~empty /\ NoStamp(graph[loc.j][2])
         edges == IF ~empty /\ ~raises /\ loc.now - graph[loc.j][2].timestamp > EDGE_TIMEOUT
                  THEN Append(loc.edges_to_delete, graph[loc.j][1])
                  ELSE loc.edges_to_delete
     IN  IF raises
         THEN /\ lock' = Released(lock)
              /\ pc' = [pc EXCEPT !.cl = "ended"]
              /\ loc' = [loc EXCEPT !.now = 0, !.edges_to_delete = << >>, !.j = 0]
         ELSE IF loc.j < Len(graph)
         THEN /\ loc' = [loc EXCEPT !.edges_to_delete = edges, !.j = loc.j + 1]
              /\ UNCHANGED <<lock, pc>>
         ELSE IF edges = << >>
         THEN /\ lock' = Released(lock)
              /\ pc' = [pc EXCEPT !.cl = "sleep"]
              /\ loc' = [loc EXCEPT !.now = 0, !.edges_to_delete = << >>, !.j = 0]
         ELSE /\ pc' = [pc EXCEPT !.cl = "delete"]
              /\ loc' = [loc EXCEPT !.edges_to_delete = edges, !.j = 1]
              /\ UNCHANGED lock
  /\ UNCHANGED <<graph, now, packet, out, arrived, newest, snap>>

\* cleaner_thread: del graph[edge] for one edge of edges_to_delete
cl_delete ==
  /\ pc.cl = "delete"
  /\ graph' = Del(graph, loc.edges_to_delete[loc.j])
  /\ IF loc.j < Len(loc.edges_to_delete)
     THEN /\ loc' = [loc EXCEPT !.j = loc.j + 1]
          /\ UNCHANGED pc
     ELSE /\ pc' = [pc EXCEPT !.cl = "print"]
          /\ UNCHANGED loc
  /\ UNCHANGED <<now, packet, out, arrived, newest, lock, snap>>

\* cleaner_thread: the count is printed and the with statement is left
cl_print ==
  /\ pc.cl = "print"
  /\ out' = [op |-> "sweep", count |-> Len(loc.edges_to_delete)]
  /\ lock' = Released(lock)
  /\ pc' = [pc EXCEPT !.cl = "sleep"]
  /\ loc' = [loc EXCEPT !.now = 0, !.edges_to_delete = << >>, !.j = 0]
  /\ UNCHANGED <<graph, now, packet, arrived, newest, snap>>

\* the command loop: input returns the command c
cmd_input(c) ==
  /\ pc.cmd = "input"
  /\ out' = Idle
  /\ loc' = [loc EXCEPT !.cmd = <<c>>]
  /\ pc' = [pc EXCEPT !.cmd = IF c.name = "map" THEN "map_lock" ELSE "adj_lock"]
  /\ snap' = << >>
  /\ UNCHANGED <<graph, now, packet, arrived, newest, lock>>

\* build_adjacency_list: with graph_lock
adj_lock ==
  /\ pc.cmd = "adj_lock"
  /\ Acquirable(lock, "adj")
  /\ lock' = "cmd"
  /\ pc' = [pc EXCEPT !.cmd = "adj_build"]
  /\ loc' = [loc EXCEPT !.adj = << >>, !.k = 1]
  /\ snap' = <<graph>>
  /\ UNCHANGED <<graph, now, packet, out, arrived, newest>>

\* build_adjacency_list: one entry of graph is added to adj; data.get raises for a
\* value that is no dict, and the command loop reports it; after the last entry the
\* with statement is left and adj returned
adj_build ==
  /\ pc.cmd = "adj_build"
  /\ LET empty == loc.k > Len(graph)
         raises == ~empty /\ ~IsDict(graph[loc.k][2])
         adj == IF empty \/ raises THEN loc.adj ELSE BuildAdj(<<graph[loc.k]>>, 1, loc.adj)
     IN  IF raises
         THEN /\ lock' = Released(lock)
              /\ pc' = [pc EXCEPT !.cmd = "input"]
              /\ loc' = [loc EXCEPT !.cmd = << >>, !.adj = << >>, !.k = 0]
              /\ out' = CmdError
         ELSE IF loc.k < Len(graph)
         THEN /\ loc' = [loc EXCEPT !.adj = adj, !.k = loc.k + 1]
              /\ UNCHANGED <<lock, pc, out>>
         ELSE /\ lock' = Released(lock)
              /\ pc' = [pc EXCEPT !.cmd = "query"]
              /\ loc' = [loc EXCEPT !.adj = adj, !.k = 0]
              /\ UNCHANGED out
  /\ UNCHANGED <<graph, now, packet, arrived, newest, snap>>

\* dijkstra, bfs and the nodes command after build_adjacency_list has returned: the
\* result is computed from adj and printed
cmd_query ==
  /\ pc.cmd = "query"
  /\ LET c == loc.cmd[1]
     IN  out' = IF c.name = "path"
                THEN [op |-> "path", start |-> c.start, end |-> c.end,
                      res |-> dijkstra_adj(loc.adj, c.start, c.end)]
                ELSE IF c.name = "bfs"
                THEN [op |-> "bfs", start |-> c.start, res |-> bfs_adj(loc.adj, c.start)]
                ELSE [op |-> "nodes", adj |-> loc.adj, res |-> sorted(Keys(loc.adj))]
  /\ pc' = [pc EXCEPT !.cmd = "input"]
  /\ loc' = [loc EXCEPT !.cmd = << >>, !.adj = << >>]
  /\ snap' = << >>
  /\ UNCHANGED <<graph, now, packet, arrived, newest, lock>>

\* the map command: with graph_lock, and sorted(graph.items()) is taken
map_lock ==
  /\ pc.cmd = "map_lock"
  /\ Acquirable(lock, "map")
  /\ lock' = "cmd"
  /\ pc' = [pc EXCEPT !.cmd = "map_print"]
  /\ loc' = [loc EXCEPT !.items = SortedItems(graph), !.k = 1]
  /\ snap' = <<graph>>
  /\ UNCHANGED <<graph, now, packet, out, arrived, newest>>

\* the map command: one line is printed (the line of the empty map when there is no
\* entry); an entry without rssi or timestamp raises, and the command loop reports
\* it; after the last line the with statement is left
map_print ==
  /\ pc.cmd = "map_print"
  /\ LET empty == loc.k > Len(loc.items)
         raises == /\ ~empty
                   /\ \/ ~IsDict(loc.items[loc.k][2])
                      \/ ~HasKey(loc.items[loc.k][2], "rssi")
                      \/ ~HasKey(loc.items[loc.k][2], "timestamp")
     IN  /\ out' = IF raises THEN CmdError
                   ELSE [op |-> "map", shown |-> IF empty THEN 0 ELSE loc.k]
         /\ IF raises \/ loc.k >= Len(loc.items)
            THEN /\ lock' = Released(lock)
                 /\ pc' = [pc EXCEPT !.cmd = "input"]
                 /\ loc' = [loc EXCEPT !.cmd = << >>, !.items = << >>, !.k = 0]
                 /\ snap' = << >>
            ELSE /\ loc' = [loc EXCEPT !.k = loc.k + 1]
                 /\ UNCHANGED <<lock, pc, snap>>
  /\ UNCHANGED <<graph, now, packet, arrived, newest>>

\* a thread that is no daemon: it runs on after the main thread has ended
Daemon_joined(at) == at
\* threading.Thread(..., daemon=True): the interpreter does not wait for the thread
\* when the main thread ends; it is stopped where it is, at
Daemon(at) == "killed"

\* the exit command: the command loop is left by break, the closing message is
\* printed and sys.exit(0) ends the main thread, and with it the two daemon threads
cmd_exit ==
  /\ pc.cmd = "input"
  /\ out' = [op |-> "exit"]
  /\ pc' = [rx |-> Daemon(pc.rx), cl |-> Daemon(pc.cl), cmd |-> "exited"]
  /\ UNCHANGED <<graph, now, packet, arrived, newest, lock, loc, snap>>

\* ------------------------------------------------------- the running server
Init ==
  /\ graph = << >>
  /\ now = 0
  /\ packet = << >>
  /\ out = Idle
  /\ arrived = << >>
  /\ newest = << >>
  /\ lock = Free
  /\ pc = Start
  /\ loc = Locals
  /\ snap = << >>

Next ==
  \/ \E pkt \in Packets : RxRecv(pkt)
  \/ RxHandle("none")
  \/ Sweep
  \/ Tick

Spec == Init /\ [][Next]_vars

\* the same server, with the newest timestamp received for each edge kept
NextSeen ==
  \/ \E pkt \in SinglePackets : RxRecv(pkt)
  \/ RxHandle("newest")
  \/ Sweep
  \/ Tick

SpecSeen == Init /\ [][NextSeen]_vars

\* upserts with no sweep in between, with the upserts to Watched kept in order
NextLww ==
  \/ \E pkt \in SinglePackets : Len(arrived) < MaxArrivals /\ RxRecv(pkt)
  \/ RxHandle("arrived")

SpecLww == Init /\ [][NextLww]_vars

\* ------------------------------------------------- the queries on any graph
InitQuery ==
  /\ graph \in QueryGraphs
  /\ now = 0
  /\ packet = << >>
  /\ out = Idle
  /\ arrived = << >>
  /\ newest = << >>
  /\ lock = Free
  /\ pc = Start
  /\ loc = Locals
  /\ snap = << >>

NextQuery ==
  \/ \E s, e \in Nodes : CmdPath(s, e)
  \/ \E s \in Nodes : CmdBfs(s)
  \/ CmdNodes
  \/ Prompt

SpecQuery == InitQuery /\ [][NextQuery]_vars

\* ------------------------------------- the server with its queries, live
\* the keys "1,2" and "1,3"
PairTexts == {Str(1) \o <<Comma>> \o Str(2), Str(1) \o <<Comma>> \o Str(3)}
\* well-formed datagrams of one report
LivePackets == [sender : {Str(1)}, edges : EdgeLists(PairTexts, {1})]

NextLive ==
  \/ \E pkt \in LivePackets : RxRecv(pkt)
  \/ RxHandle("newest")
  \/ Sweep
  \/ Tick
  \/ \E s, e \in Nodes : CmdPath(s, e)
  \/ \E s \in Nodes : CmdBfs(s)
  \/ Prompt

SpecLive == Init /\ [][NextLive]_vars

\* ------------------------------------------ the receiver and bad datagrams
\* keys of two fields, and keys of one field, of three and with an empty field
EmptyFieldTexts == {Str(1) \o <<Comma>>}
\* values of data["edges"]: two records, a dict without timestamp and a number
Fresh == [rssi |-> -1, timestamp |-> 1]
FaultDatas == {[rssi |-> -3, timestamp |-> 0], Fresh, [rssi |-> -1], [scalar |-> 5]}
FaultItems ==
  (PairTexts \X FaultDatas) \cup ((OddTexts \cup EmptyFieldTexts) \X {Fresh})
FaultLists == {l \in SeqsUpTo(FaultItems, 2) : Len(l) >= 1 /\ DistinctKeys(l)}
\* the datagrams: objects with a sender and one or two entries, objects with no
\* sender, with the sender null and with no edges, and datagrams that are no object
FaultPackets ==
  [sender : {Str(1)}, edges : FaultLists]
    \cup {[edges |-> <<e>>] : e \in PairTexts \X {Fresh}}
    \cup {[sender |-> None, edges |-> <<e>>] : e \in PairTexts \X {Fresh}}
    \cup {[sender |-> Str(1)]}
    \cup {[raw |-> r] : r \in {"bytes", "text", "array"}}

NextFault ==
  \/ \E pkt \in FaultPackets : RxRecv(pkt)
  \/ RxHandle("none")

SpecFault == Init /\ [][NextFault]_vars

\* ---------------------------------------------- the three threads, locked
LockDatas == {[rssi |-> -3, timestamp |-> 0], Fresh, [rssi |-> -1]}
LockLists ==
  {<<e>> : e \in PairTexts \X LockDatas}
    \cup {<<<<Str(1) \o <<Comma>> \o Str(2), d1>>, <<Str(1) \o <<Comma>> \o Str(3), d2>>>> :
            d1 \in {Fresh}, d2 \in {Fresh, [rssi |-> -1]}}
LockPackets == [sender : {Str(1)}, edges : LockLists]
LockCmds ==
  {[name |-> "path", start |-> Str(2), end |-> Str(3)],
   [name |-> "bfs", start |-> Str(1)],
   [name |-> "map"]}

NextLock ==
  \/ \E pkt \in LockPackets : rx_recvfrom(pkt)
  \/ rx_lock
  \/ rx_merge
  \/ cl_lock
  \/ cl_scan
  \/ cl_delete
  \/ cl_print
  \/ \E c \in LockCmds : cmd_input(c)
  \/ adj_lock
  \/ adj_build
  \/ cmd_query
  \/ map_lock
  \/ map_print
  \/ Tick

SpecLock == Init /\ [][NextLock]_vars

\* --------------------------------------------- the receiver thread alone
\* the datagrams: no UTF-8, no JSON, no sender; one entry under a key of two fields
\* or of one, its value a record or a dict without timestamp; and two entries, the
\* second of which may raise
IngestPackets ==
  {[raw |-> "bytes"], [raw |-> "text"]}
    \cup {[edges |-> <<e>>] : e \in {Str(1) \o <<Comma>> \o Str(2)} \X {Fresh}}
    \cup [sender : {Str(1)},
          edges : {<<e>> : e \in (PairTexts \X LockDatas) \cup ({Str(1)} \X {Fresh})}]
    \cup [sender : {Str(1)},
          edges : {l \in LockLists : Len(l) = 2}]

\* the receiver is scheduled: a step it can take is taken
NextIngest ==
  \/ \E pkt \in IngestPackets : rx_recvfrom(pkt)
  \/ rx_oserror
  \/ rx_lock
  \/ rx_merge

FairIngest ==
  Init /\ [][NextIngest]_vars /\ WF_vars(rx_lock) /\ WF_vars(rx_merge)

\* ----------------------------------- the sweeps on time, and late reports
\* the last reading of the clock
MaxTime == 24
\* time.sleep(EDGE_TIMEOUT / 2), in whole time units: the sweeps here are no rarer
\* than those of the program
SweepPeriod == EDGE_TIMEOUT \div 2
\* datagrams of one report of the link 1-2, stamped 0 or 1 whenever they arrive
StalePackets ==
  [sender : {Str(1)}, edges : EdgeLists({Str(1) \o <<Comma>> \o Str(2)}, {1})]

\* time passes while the cleaner sleeps
Elapse ==
  /\ now < MaxTime
  /\ (now + 1) % SweepPeriod # 0
  /\ now' = now + 1
  /\ UNCHANGED <<graph, packet, out, arrived, newest, lock, pc, loc, snap>>

\* cleaner_thread: the sleep is over when a period has passed, and the sweep runs
SleepSweep ==
  /\ now < MaxTime
  /\ (now + 1) % SweepPeriod = 0
  /\ now' = now + 1
  /\ graph' = Swept(graph, now')
  /\ out' = [op |-> "sweep", count |-> Len(edges_to_delete(graph, now'))]
  /\ UNCHANGED <<packet, arrived, newest, lock, pc, loc, snap>>

NextStale ==
  \/ \E pkt \in StalePackets : RxRecv(pkt)
  \/ RxHandle("none")
  \/ Elapse
  \/ SleepSweep
  \/ CmdPath(Str(1), Str(2))
  \/ Prompt

SpecStale == Init /\ [][NextStale]_vars

\* ------------------------------------- the receiver thread, its socket lost
\* the receiver is scheduled, also when recvfrom raises at every call
NextSocket ==
  \/ \E pkt \in IngestPackets : rx_recvfrom(pkt)
  \/ rx_oserror
  \/ rx_lock
  \/ rx_merge
  \/ sock_fails

FairSocket ==
  /\ Init /\ [][NextSocket]_vars
  /\ WF_vars(rx_oserror) /\ WF_vars(rx_lock) /\ WF_vars(rx_merge)

\* ------------------------------------------- the two threads and the exit
NextExit ==
  \/ \E pkt \in LivePackets : rx_recvfrom(pkt)
  \/ rx_lock
  \/ rx_merge
  \/ cl_lock
  \/ cl_scan
  \/ cl_delete
  \/ cl_print
  \/ Tick
  \/ cmd_exit

SpecExit == Init /\ [][NextExit]_vars

\* ----------------------------------------- the receiver and a self pair
\* the keys "1,1" and "1,2"
SelfTexts == {Str(1) \o <<Comma>> \o Str(1), Str(1) \o <<Comma>> \o Str(2)}
\* datagrams of one or two reports under these keys
SelfPackets == [sender : {Str(1)}, edges : EdgeLists(SelfTexts, PacketSizes)]

NextSelf ==
  \/ \E pkt \in SelfPackets : RxRecv(pkt)
  \/ RxHandle("none")

SpecSelf == Init /\ [][NextSelf]_vars

\* ------------------------------------- the receiver and the cleaner, fair
\* datagrams of one report: the link 1-2 with a record or with a dict that has no
\* timestamp, the link 1-3 with a record
ExpiryPackets ==
  [sender : {Str(1)},
   edges : {<<e>> : e \in ({Str(1) \o <<Comma>> \o Str(2)} \X {Fresh, [rssi |-> -1]})
                          \cup ({Str(1) \o <<Comma>> \o Str(3)} \X {Fresh})}]

NextExpiry ==
  \/ \E pkt \in ExpiryPackets : rx_recvfrom(pkt)
  \/ rx_lock
  \/ rx_merge
  \/ cl_lock
  \/ cl_scan
  \/ cl_delete
  \/ cl_print
  \/ Tick

\* time advances, the cleaner wakes up and gets the lock again and again, and a
\* thread inside its with statement goes on
FairExpiry ==
  /\ Init /\ [][NextExpiry]_vars
  /\ WF_vars(Tick) /\ SF_vars(cl_lock)
  /\ WF_vars(cl_scan) /\ WF_vars(cl_delete) /\ WF_vars(cl_print)
  /\ WF_vars(rx_lock) /\ WF_vars(rx_merge)

\* ------------------------------ the queries on loops and links of weight 0
LoopDatas == [rssi : {0, -2}, timestamp : {0}]
\* every dict of at most MaxStoreLen edges of weight 0 or 2, self pairs among them,
\* in every insertion order
LoopGraphs ==
  {g \in SeqsUpTo(Edges \X LoopDatas, MaxStoreLen) : DistinctKeys(g)}

InitLoops ==
  /\ graph \in LoopGraphs
  /\ now = 0
  /\ packet = << >>
  /\ out = Idle
  /\ arrived = << >>
  /\ newest = << >>
  /\ lock = Free
  /\ pc = Start
  /\ loc = Locals
  /\ snap = << >>

NextLoops ==
  \/ \E s, e \in Nodes : CmdPath(s, e)
  \/ \E s \in Nodes : CmdBfs(s)
  \/ Prompt

SpecLoops == InitLoops /\ [][NextLoops]_vars

\* ------------------------------------------- the three threads, scheduled
\* the datagrams: the link 1-3 with a dict that has no timestamp, and the links 1-2
\* and 1-3 with a record each (its second entry raises when the stored value of 1-3
\* has no timestamp)
HoldPackets ==
  [sender : {Str(1)},
   edges : {<<<<Str(1) \o <<Comma>> \o Str(3), [rssi |-> -1]>>>>,
            <<<<Str(1) \o <<Comma>> \o Str(2), Fresh>>,
              <<Str(1) \o <<Comma>> \o Str(3), Fresh>>>>}]
HoldCmds == {[name |-> "path", start |-> Str(2), end |-> Str(3)], [name |-> "map"]}

NextHold ==
  \/ \E pkt \in HoldPackets : rx_recvfrom(pkt)
  \/ rx_lock
  \/ rx_merge
  \/ cl_lock
  \/ cl_scan
  \/ cl_delete
  \/ cl_print
  \/ \E c \in HoldCmds : cmd_input(c)
  \/ adj_lock
  \/ adj_build
  \/ cmd_query
  \/ map_lock
  \/ map_print
  \/ Tick

\* a step of the thread that is inside its with statement
HolderStep ==
  rx_merge \/ cl_scan \/ cl_delete \/ cl_print \/ adj_build \/ map_print

\* the thread that is inside its with statement is scheduled and goes on
FairHold == Init /\ [][NextHold]_vars /\ WF_vars(HolderStep)

\* ------------------------------------------------ what the claims speak of
\* The graph the store stands for, stated without the program's traversals.
Endpoints(g) == UNION {{g[i][1][1], g[i][1][2]} : i \in DOMAIN g}
Joined(g, u, v) == \E i \in DOMAIN g : g[i][1] = <<u, v>> \/ g[i][1] = <<v, u>>
AbsVal(x) == IF x < 0 THEN 0 - x ELSE x
\* abs(metric) of the one stored edge that joins u and v
EdgeCost(g, u, v) ==
  LET i == CHOOSE j \in DOMAIN g : g[j][1] = <<u, v>> \/ g[j][1] = <<v, u>>
  IN  AbsVal(g[i][2].rssi)
\* p is a walk of the graph: consecutive nodes are joined by a stored edge
IsWalk(g, p) ==
  /\ Len(p) >= 1
  /\ p[1] \in Endpoints(g)
  /\ \A i \in 1 .. Len(p) - 1 : Joined(g, p[i], p[i + 1])
RECURSIVE WalkCost(_, _, _)
WalkCost(g, p, i) ==
  IF i >= Len(p) THEN 0 ELSE EdgeCost(g, p[i], p[i + 1]) + WalkCost(g, p, i + 1)
\* the non-empty node sequences that repeat no node
SimpleSeqs ==
  {p \in SeqsUpTo(Nodes, Cardinality(Nodes)) :
     Len(p) >= 1 /\ \A i, j \in DOMAIN p : p[i] = p[j] => i = j}
\* the walks from s to e that repeat no node
SimplePaths(g, s, e) ==
  {p \in SimpleSeqs : p[1] = s /\ p[Len(p)] = e /\ IsWalk(g, p)}
Connected(g, s, e) == SimplePaths(g, s, e) # {}
Component(g, s) == {n \in Nodes : Connected(g, s, n)}
MinOf(S) == CHOOSE x \in S : \A y \in S : x <= y
MinCost(g, s, e) == MinOf({WalkCost(g, p, 1) : p \in SimplePaths(g, s, e)})
HopDistance(g, s, n) == MinOf({Len(p) - 1 : p \in SimplePaths(g, s, n)})

\* ------------------------------------------------------------------ C1
\* the datagram that upserts data to Watched, and the store a sequence of such
\* upserts leaves, starting from the empty store
UpsertOf(data) ==
  [sender |-> Str(1), edges |-> << <<Watched[1] \o <<Comma>> \o Watched[2], data>> >>]
RECURSIVE Replay(_, _, _)
Replay(g, datas, i) ==
  IF i > Len(datas) THEN g
  ELSE Replay(Received(g, UpsertOf(datas[i])).graph, datas, i + 1)
Reordered(datas) ==
  {[i \in DOMAIN datas |-> datas[f[i]]] : f \in Permutations(DOMAIN datas)}
MaxStamp(datas) ==
  CHOOSE t \in {datas[i].timestamp : i \in DOMAIN datas} :
    \A i \in DOMAIN datas : datas[i].timestamp <= t
\* the first of the records of datas that carry the largest timestamp
FirstNewest(datas) ==
  datas[CHOOSE i \in DOMAIN datas :
          /\ datas[i].timestamp = MaxStamp(datas)
          /\ \A j \in 1 .. i - 1 : datas[j].timestamp < MaxStamp(datas)]
OneNewest(datas) ==
  \A i, j \in DOMAIN datas :
    (datas[i].timestamp = MaxStamp(datas) /\ datas[j].timestamp = MaxStamp(datas))
      => datas[i] = datas[j]

\* C1 as claimed: after any sequence of upserts to one edge, in every order of
\* arrival, the store holds the same record for the edge, and it carries the
\* largest timestamp upserted.
C1_AnyOrderSameRecord ==
  arrived # << >> =>
    /\ Has(graph, Watched)
    /\ Get(graph, Watched).timestamp = MaxStamp(arrived)
    /\ \A p \in Reordered(arrived) :
         Get(Replay(<< >>, p, 1), Watched) = Get(graph, Watched)

\* C1 as amended: the store holds the first-arrived of the records that carry the
\* largest timestamp; in every order of arrival the stored timestamp is that
\* largest one, and the stored record is the same when only one distinct record
\* carries it.
C1_FirstNewestWins ==
  arrived # << >> =>
    /\ Has(graph, Watched)
    /\ Get(graph, Watched) = FirstNewest(arrived)
    /\ \A p \in Reordered(arrived) :
         /\ Get(Replay(<< >>, p, 1), Watched).timestamp = MaxStamp(arrived)
         /\ OneNewest(arrived) => Get(Replay(<< >>, p, 1), Watched) = Get(graph, Watched)

\* three upserts with two timestamps: the newest came second and was kept
C1_Witness ==
  /\ Len(arrived) = 3
  /\ arrived[1].timestamp < arrived[2].timestamp
  /\ arrived[3].timestamp < arrived[2].timestamp
  /\ Get(graph, Watched) = arrived[2]

\* ------------------------------------------------------------------ C2
\* a step of receiver_thread that merges the datagram it holds
MergeStep == packet # << >> /\ packet' = << >>
\* the edges the merge loop runs over
EdgesOf(pkt) == IF Falsy(parse_packet(pkt)[1]) THEN << >> ELSE parse_packet(pkt)[2]
\* the datagram holds, for the stored edge, a record that is not newer
StaleFor(pkt, g, edge) ==
  /\ Has(g, edge)
  /\ Has(EdgesOf(pkt), edge)
  /\ Get(EdgesOf(pkt), edge).timestamp <= Get(g, edge).timestamp

\* C2: an upsert whose timestamp is not larger than the stored one leaves the
\* stored record as it was, and every entry the datagram has no newer record for
\* stays in its place unchanged.
C2_StaleRejected ==
  [][MergeStep =>
       /\ \A i \in DOMAIN graph :
            (~Has(EdgesOf(packet[1]), graph[i][1]) \/ StaleFor(packet[1], graph, graph[i][1]))
              => (i \in DOMAIN graph' /\ graph'[i] = graph[i])
       /\ (\A i \in DOMAIN EdgesOf(packet[1]) :
             StaleFor(packet[1], graph, EdgesOf(packet[1])[i][1])) => graph' = graph]_vars

\* a datagram was merged of which one record was written and one was turned down
C2_Witness ==
  /\ out.op = "recv"
  /\ out.rejected = 1 /\ out.applied = 1
  /\ Len(graph) = 2

\* ------------------------------------------------------------------ C3
\* C3 as claimed: every stored edge has one record, and its timestamp is the largest
\* received so far for the edge, sweeps or not.
C3_LargestEverReceived ==
  /\ DistinctKeys(graph)
  /\ \A i \in DOMAIN graph :
       Has(newest, graph[i][1]) /\ graph[i][2].timestamp = Get(newest, graph[i][1])

\* ------------------------------------------------------------------ C4
Sorted(edge) == Len(edge) = 2 /\ ~StrLess(edge[2], edge[1])
\* the datagram with the two fields of every key exchanged
Swapped(pkt) ==
  [pkt EXCEPT !.edges =
     [i \in DOMAIN pkt.edges |->
        LET nodes == Split(pkt.edges[i][1])
        IN  IF Len(nodes) = 2
            THEN <<nodes[2] \o <<Comma>> \o nodes[1], pkt.edges[i][2]>>
            ELSE pkt.edges[i]]]

\* C4: every key of the store is a pair in ascending order, no pair of nodes has two
\* entries, and a datagram keyed "B,A" is merged as the one keyed "A,B" is.
C4_Canonical ==
  /\ \A i \in DOMAIN graph : Sorted(graph[i][1])
  /\ \A i, j \in DOMAIN graph :
       {graph[i][1][1], graph[i][1][2]} = {graph[j][1][1], graph[j][1][2]} => i = j
  /\ packet # << >> =>
       Received(graph, Swapped(packet[1])).graph = Received(graph, packet[1]).graph

\* one datagram named a pair under both keys and one entry stands for it
C4_Witness ==
  /\ out.op = "recv"
  /\ out.entries = 2
  /\ out.applied + out.rejected = 1
  /\ Len(graph) = 1

\* ------------------------------------------------------------------ C5
Expired(data, t) == t - data.timestamp > EDGE_TIMEOUT

\* C5: a sweep removes exactly the entries with now - timestamp > ttl, leaves the
\* others as they were and in their order, counts the entries it removed, and a
\* second sweep at the same time removes nothing.
C5_SweepExact ==
  [][Sweep =>
       /\ graph' = SelectSeq(graph, LAMBDA e : ~Expired(e[2], now))
       /\ \A i \in DOMAIN graph : Expired(graph[i][2], now) <=> ~Has(graph', graph[i][1])
       /\ out'.count = Len(graph) - Len(graph')
       /\ Swept(graph', now) = graph'
       /\ Len(edges_to_delete(graph', now)) = 0]_vars

\* a sweep removed one entry and left one
C5_Witness ==
  /\ out.op = "sweep"
  /\ out.count = 1
  /\ Len(graph) = 1
  /\ now - graph[1][2].timestamp = EDGE_TIMEOUT

\* ------------------------------------------------------------------ C6
\* C6: shortest_path returns (none, +infinity) whenever the start or the end node
\* has no edge in the store, and whenever both have edges but no path joins them.
C6_SentinelWhenUnreachable ==
  out.op = "path" =>
    ((\/ out.start \notin Endpoints(graph)
      \/ out.end \notin Endpoints(graph)
      \/ ~Connected(graph, out.start, out.end))
     => (out.res.path = NoPath /\ out.res.cost = Inf))

\* both endpoints have edges, in different components, and the sentinel came back
C6_Witness ==
  /\ out.op = "path"
  /\ out.start \in Endpoints(graph) /\ out.end \in Endpoints(graph)
  /\ ~Connected(graph, out.start, out.end)
  /\ out.res.path = NoPath /\ out.res.cost = Inf

\* ------------------------------------------------------------------ C7
\* C7: when start and end are connected, the returned path runs from start to end
\* over stored edges and the returned cost is the sum of abs(metric) along it.
C7_PathIsWalkWithItsCost ==
  (out.op = "path" /\ Connected(graph, out.start, out.end)) =>
    /\ out.res.path # NoPath
    /\ out.res.path[1] = out.start
    /\ out.res.path[Len(out.res.path)] = out.end
    /\ IsWalk(graph, out.res.path)
    /\ out.res.cost = WalkCost(graph, out.res.path, 1)

\* a path over two edges of different metrics came back
C7_Witness ==
  /\ out.op = "path"
  /\ Connected(graph, out.start, out.end)
  /\ Len(out.res.path) = 3
  /\ EdgeCost(graph, out.res.path[1], out.res.path[2])
       # EdgeCost(graph, out.res.path[2], out.res.path[3])
  /\ out.res.cost = WalkCost(graph, out.res.path, 1)

\* ------------------------------------------------------------------ C8
\* the cost the loop gives when it runs until the queue is empty (no node is None, so the break is
\* never taken)
FullRunCost(g, s, e) ==
  LET adj == build_adjacency_list(g)
  IN  DijkstraLoop(adj, None, InitState(adj, s)).distances[e]

\* C8: the returned cost is the least weight sum over all paths from start to end,
\* and it is the cost the relaxation gives when run until the queue is empty.
C8_CostIsMinimal ==
  (out.op = "path" /\ Connected(graph, out.start, out.end)) =>
    /\ out.res.cost = MinCost(graph, out.start, out.end)
    /\ out.res.cost = FullRunCost(graph, out.start, out.end)

\* the direct edge exists and is dearer than the detour that was returned
C8_Witness ==
  /\ out.op = "path"
  /\ Joined(graph, out.start, out.end)
  /\ out.start # out.end
  /\ out.res.path # NoPath
  /\ Len(out.res.path) = 3
  /\ out.res.cost < EdgeCost(graph, out.start, out.end)

\* ------------------------------------------------------------------ C9
\* C9: for a node X with at least one stored edge, shortest_path(X, X) is ([X], 0).
C9_SelfPath ==
  (out.op = "path" /\ out.start = out.end /\ out.start \in Endpoints(graph)) =>
    (out.res.path = <<out.start>> /\ out.res.cost = 0)

C9_Witness ==
  /\ out.op = "path" /\ out.start = out.end /\ out.start \in Endpoints(graph)
  /\ Len(graph) >= 2
  /\ out.res.path = <<out.start>> /\ out.res.cost = 0

EndsAt(g, i, n) ==
  (IF g[i][1][1] = n THEN 1 ELSE 0) + (IF g[i][1][2] = n THEN 1 ELSE 0)
RECURSIVE Degree(_, _, _)
Degree(g, n, i) == IF i > Len(g) THEN 0 ELSE EndsAt(g, i, n) + Degree(g, n, i + 1)

\* C11: the adjacency holds, for every stored edge (u, v) with metric m, (v, abs(m))
\* under u and (u, abs(m)) under v, and no other entry; its keys are the nodes that
\* are an end of a stored edge, which are the nodes the nodes command prints.
C11_AdjacencyUndirected ==
  out.op = "nodes" =>
    /\ \A i \in DOMAIN graph :
         LET u == graph[i][1][1]
             v == graph[i][1][2]
             w == AbsVal(graph[i][2].rssi)
         IN  /\ Has(out.adj, u) /\ <<v, w>> \in Range(Get(out.adj, u))
             /\ Has(out.adj, v) /\ <<u, w>> \in Range(Get(out.adj, v))
    /\ \A n \in Keys(out.adj) :
         /\ \A e \in Range(Get(out.adj, n)) :
              \E i \in DOMAIN graph :
                /\ graph[i][1] \in {<<n, e[1]>>, <<e[1], n>>}
                /\ AbsVal(graph[i][2].rssi) = e[2]
         /\ Len(Get(out.adj, n)) = Degree(graph, n, 1)
    /\ DistinctKeys(out.adj)
    /\ Keys(out.adj) = Endpoints(graph)
    /\ Range(out.res) = Endpoints(graph)
    /\ \A i \in 1 .. Len(out.res) - 1 : StrLess(out.res[i], out.res[i + 1])

\* three nodes, one of them with two neighbours at different weights
C11_Witness ==
  /\ out.op = "nodes"
  /\ Len(out.res) = 3
  /\ \E n \in Keys(out.adj) :
       /\ Len(Get(out.adj, n)) = 2
       /\ Get(out.adj, n)[1][1] # Get(out.adj, n)[2][1]
       /\ Get(out.adj, n)[1][2] # Get(out.adj, n)[2][2]

\* ----------------------------------------------------------------- C12
\* every stored edge with an end at n is expired at time t
AllExpired(g, n, t) ==
  \A i \in DOMAIN g : EndsAt(g, i, n) > 0 => Expired(g[i][2], t)

\* C12: a sweep at which every edge of a node is expired leaves the node with no
\* edge, and a path or bfs command given a node that has no stored edge (none was
\* merged since) answers (None, inf) and [].
C12_ExpiredVanish ==
  [][/\ Sweep => \A n \in Nodes : AllExpired(graph, n, now) => n \notin Endpoints(graph')
     /\ (out = Idle /\ out' # Idle /\ out'.op = "path"
           /\ (out'.start \notin Endpoints(graph) \/ out'.end \notin Endpoints(graph)))
          => out'.res = NotFound
     /\ (out = Idle /\ out' # Idle /\ out'.op = "bfs" /\ out'.start \notin Endpoints(graph))
          => out'.res = << >>]_vars

\* the links 1-2 and 1-3 were both reported and both swept, and the path from 2 to
\* 3 was asked for afterwards
C12_Witness ==
  /\ out.op = "path"
  /\ out.start = Str(2) /\ out.end = Str(3)
  /\ Has(newest, <<Str(1), Str(2)>>) /\ Has(newest, <<Str(1), Str(3)>>)
  /\ graph = << >>
  /\ now > EDGE_TIMEOUT
  /\ out.res = NotFound

\* ----------------------------------------------------------------- C13
\* the places of the threads inside "with graph_lock:"
InCleaner == pc.cl \in {"scan", "delete", "print"}
InReader == pc.cmd \in {"adj_build", "map_print"}
InMerge == pc.rx = "merge"

\* C13: while build_adjacency_list runs the graph stays as it was when the lock was
\* taken; the adjacency it returns is the one of that graph, is not changed by the
\* merges and sweeps that follow, and the result printed is the result on that one
\* graph.
C13_SnapshotConsistent ==
  [][/\ pc.cmd = "adj_build" => (graph = snap[1] /\ graph' = graph)
     /\ pc.cmd = "query" =>
          /\ loc.adj = build_adjacency_list(snap[1])
          /\ loc'.adj # loc.adj => pc'.cmd = "input"
     /\ (pc.cmd = "query" /\ pc'.cmd = "input") =>
          /\ out'.op = "path" =>
               out'.res = dijkstra(snap[1], loc.cmd[1].start, loc.cmd[1].end)
          /\ out'.op = "bfs" => out'.res = bfs(snap[1], loc.cmd[1].start)]_vars

\* the traversal is about to run on the adjacency of two edges, and the graph has
\* changed since the adjacency was built
C13_Witness ==
  /\ pc.cmd = "query"
  /\ Len(snap[1]) = 2
  /\ graph # snap[1]
  /\ loc.adj = build_adjacency_list(snap[1])

\* ----------------------------------------------------------------- C14
\* C14: from the first look of a sweep at the graph until its last deletion the
\* cleaner holds the lock, no merge and no reader is inside a locked region, the
\* graph changes by the sweep's deletions only, and an edge is deleted only while
\* the record it holds is expired at the time the sweep read.
C14_SweepAtomic ==
  [][/\ InCleaner => (lock = "cl" /\ ~InMerge /\ ~InReader)
     /\ (InCleaner /\ graph' # graph) =>
          /\ pc.cl = "delete"
          /\ Has(graph, loc.edges_to_delete[loc.j])
          /\ loc.now - Get(graph, loc.edges_to_delete[loc.j]).timestamp > EDGE_TIMEOUT
          /\ graph' = Del(graph, loc.edges_to_delete[loc.j])]_vars

\* one of the two deletions of a sweep is done, while a datagram and a command wait
\* for the lock
C14_Witness ==
  /\ pc.cl = "delete"
  /\ Len(loc.edges_to_delete) = 2 /\ loc.j = 2
  /\ Len(graph) = 1
  /\ pc.rx = "lock"
  /\ pc.cmd \in {"adj_lock", "map_lock"}

\* ----------------------------------------------------------------- C15
\* C15 as claimed: the lock is held for the dict operations only; it is held neither
\* while the cleaner prints its count, nor while the map command prints its lines,
\* nor while build_adjacency_list computes the weights and fills adj.
C15_LockForDictOpsOnly ==
  /\ ~(lock = "cl" /\ pc.cl = "print")
  /\ ~(lock = "cmd" /\ pc.cmd = "map_print")
  /\ ~(lock = "cmd" /\ pc.cmd = "adj_build")

\* ----------------------------------------------------------------- C16
\* C16: the receiver in recvfrom, the cleaner in sleep and the command loop in input
\* do not hold the lock: a thread holds it only inside its with statement.
C16_NoLockWhileSuspended ==
  /\ pc.rx = "recvfrom" => lock # "rx"
  /\ pc.cl = "sleep" => lock # "cl"
  /\ pc.cmd = "input" => lock # "cmd"
  /\ lock = "rx" => InMerge
  /\ lock = "cl" => InCleaner
  /\ lock = "cmd" => InReader

\* the receiver is back in recvfrom after its merge raised, the cleaner has ended
\* by an exception, the command loop waits in input, and the lock is free
C16_Witness ==
  /\ pc.rx = "recvfrom" /\ out = RxError("merge")
  /\ pc.cl = "ended"
  /\ pc.cmd = "input"
  /\ lock = Free

\* ----------------------------------------------------------------- C17
\* the key is not made of two fields that are both non-empty
OddKey(text) ==
  LET nodes == Split(text)
  IN  Len(nodes) # 2 \/ nodes[1] = << >> \/ nodes[2] = << >>
HasOddKey(pkt) == \E i \in DOMAIN Items(pkt) : OddKey(Items(pkt)[i][1])

\* C17 as claimed: a datagram with such a key among its edges leaves the graph as
\* it was.
C17_OddKeyDropsDatagram ==
  [][(MergeStep /\ HasOddKey(packet[1])) => graph' = graph]_vars

\* ----------------------------------------------------------------- C18
\* the datagram is no JSON object, or it is one that names no sender
NoSender(pkt) ==
  HasKey(pkt, "raw") \/ ~HasKey(pkt, "sender") \/ pkt.sender = None

\* C18: a datagram that is no JSON object or names no sender leaves the graph as it
\* was, nothing of it is merged, and the receiver is back in recvfrom.
C18_SkippedEntirely ==
  [][(MergeStep /\ NoSender(packet[1])) =>
       /\ graph' = graph
       /\ out'.applied = 0
       /\ packet' = << >>]_vars

\* a datagram with one entry and no sender was skipped while the graph held edges
C18_Witness ==
  /\ out.op = "recv"
  /\ out.skipped
  /\ out.entries = 1
  /\ Len(graph) = 2
  /\ packet = << >>

\* ----------------------------------------------------------------- C19
\* a value of the datagram is no dict or a dict without timestamp
HasBadRecord(pkt) == \E i \in DOMAIN Items(pkt) : NoStamp(Items(pkt)[i][2])

\* C19 as claimed: a datagram with such a value leaves the graph as it was.
C19_CorruptNeverApplied ==
  [][(MergeStep /\ HasBadRecord(packet[1])) => graph' = graph]_vars

\* ----------------------------------------------------------------- C20
\* C20: the receiver thread never ends, and whatever it received or raised it comes
\* back to recvfrom, where the next datagram is taken.
C20_LoopGoesOn ==
  /\ [](pc.rx # "ended")
  /\ [](pc.rx \in {"lock", "merge"} => packet # << >>)
  /\ (pc.rx # "recvfrom") ~> (pc.rx = "recvfrom" /\ packet = << >> /\ lock = Free)

\* after a merge raised, a later datagram of two entries is being merged
C20_Witness ==
  /\ out = RxError("merge")
  /\ pc.rx = "merge"
  /\ loc.i = 2
  /\ ~HasBadRecord(packet[1])

\* ----------------------------------------------------------------- C21
\* C21: whatever the receiver has put into graph, cleaner_thread goes on: it is
\* never ended by an exception, so it keeps sleeping and sweeping
C21_CleanerKeepsRunning == pc.cl # "ended"

\* ----------------------------------------------------------------- C22
\* C22 as claimed: with a sweep every period, a query never reads an edge older than
\* one and a half EDGE_TIMEOUT, whenever the reports arrive and whatever timestamp
\* they carry.
C22_NoStaleRead ==
  [][(out = Idle /\ out' # Idle /\ out'.op = "path") =>
       \A i \in DOMAIN graph : 2 * (now - graph[i][2].timestamp) <= 3 * EDGE_TIMEOUT]_vars

\* ----------------------------------------------------------------- C23
\* C23 as claimed: once every recvfrom fails, receiver_thread comes to an end
\* instead of calling recvfrom again for ever.
C23_LostSocketEndsReceiver == (loc.sock = "closed") ~> (pc.rx = "ended")

\* ----------------------------------------------------------------- C24
\* C24 as claimed: the exit command ends the command loop only; receiver_thread and
\* cleaner_thread are not stopped by it.
C24_ExitLeavesThreads ==
  pc.cmd = "exited" => (pc.rx # "killed" /\ pc.cl # "killed")

\* C24: the exit command ends the program: once it is processed the receiver and
\* the cleaner are stopped with the command loop, wherever they were, and no
\* datagram is received or merged and no sweep is made any more.
C24_ExitEndsAll ==
  [][/\ pc'.cmd = "exited" => (pc'.rx = "killed" /\ pc'.cl = "killed")
     /\ pc.cmd = "exited" => UNCHANGED <<graph, packet, out, lock, pc, loc, snap>>]_vars

\* exit was given while the receiver was merging a datagram and the cleaner slept
C24_Witness ==
  /\ pc.cmd = "exited"
  /\ packet # << >> /\ lock = "rx"
  /\ out = [op |-> "exit"]

\* ----------------------------------------------------------------- C25
\* C25 as claimed: no key of graph has its two nodes equal, whatever datagrams were
\* received; a report keyed "1,1" is dropped.
C25_NoSelfPair == \A i \in DOMAIN graph : graph[i][1][1] # graph[i][1][2]

\* ----------------------------------------------------------------- C26
\* C26: the entries of one datagram are merged in one critical section: from the
\* first entry to the last the receiver holds the lock and neither the cleaner nor a
\* reader is inside a locked region, and a reader or a sweep takes its first look at
\* the graph only while no datagram is half merged.
C26_DatagramAtomic ==
  [][/\ InMerge => (lock = "rx" /\ ~InCleaner /\ ~InReader)
     /\ (InMerge /\ pc'.rx = "merge") => lock' = "rx"
     /\ (~InReader /\ pc'.cmd \in {"adj_build", "map_print"}) => (loc.i = 0 /\ ~InMerge)
     /\ (~InCleaner /\ pc'.cl = "scan") => (loc.i = 0 /\ ~InMerge)]_vars

\* the first of the two reports of a well-formed datagram is merged and the second is
\* not yet, while a command waits for the lock and the cleaner is between two sweeps
C26_Witness ==
  /\ pc.rx = "merge" /\ loc.i = 2
  /\ Len(parse_packet(packet[1])[2]) = 2
  /\ \A e \in Range(parse_packet(packet[1])[2]) : ~NoStamp(e[2])
  /\ Has(graph, parse_packet(packet[1])[2][1][1])
  /\ ~Has(graph, parse_packet(packet[1])[2][2][1])
  /\ pc.cmd \in {"adj_lock", "map_lock"}
  /\ pc.cl = "sleep"

\* ----------------------------------------------------------------- C27
\* C27 as claimed: with the cleaner scheduled and time advancing, every edge that is
\* in graph is removed in the end (no record of the model stays fresh for ever).
C27_EventuallyRemoved ==
  \A edge \in {<<Str(1), Str(2)>>, <<Str(1), Str(3)>>} :
    Has(graph, edge) ~> ~Has(graph, edge)

\* ----------------------------------------------------------------- C28
\* no element occurs twice in s
NoRepeat(s) == \A i, j \in DOMAIN s : s[i] = s[j] => i = j

\* C28: on every graph, with self pairs, links of weight 0 and cycles, dijkstra and
\* bfs return: the path is (None, inf) or runs from start to end along stored edges
\* with no node twice (the chain of predecessors ends at None and has no cycle) at
\* a finite cost, and bfs lists nodes of the graph, none twice.
C28_QueriesReturn ==
  /\ out.op = "path" =>
       \/ out.res = NotFound
       \/ /\ NoRepeat(out.res.path)
          /\ out.res.path[1] = out.start
          /\ out.res.path[Len(out.res.path)] = out.end
          /\ IsWalk(graph, out.res.path)
          /\ out.res.cost >= 0 /\ out.res.cost < Inf
  /\ out.op = "bfs" =>
       /\ NoRepeat(out.res)
       /\ Range(out.res) \subseteq Endpoints(graph)

\* a path of three nodes and cost 0 was found from a node that has a self pair
C28_Witness ==
  /\ out.op = "path"
  /\ Len(out.res.path) = 3 /\ out.res.cost = 0
  /\ Has(graph, <<out.start, out.start>>)

\* ----------------------------------------------------------------- C29
\* the datagram holds two entries whose keys name the same edge, with different
\* timestamps
Twins(pkt) ==
  /\ ~Falsy(parse_packet(pkt)[1])
  /\ Len(Items(pkt)) = 2
  /\ Len(EdgesOf(pkt)) = 1
  /\ Items(pkt)[1][2].timestamp # Items(pkt)[2][2].timestamp
\* the entry of the two with the larger timestamp
NewerTwin(pkt) ==
  IF Items(pkt)[1][2].timestamp > Items(pkt)[2][2].timestamp
  THEN Items(pkt)[1][2] ELSE Items(pkt)[2][2]

\* C29 as claimed: after the merge of such a datagram, with the edge not stored
\* before or stored with an older record than both, the stored record is the entry
\* with the larger timestamp, whichever of the two came first in the datagram.
C29_NewerTwinStored ==
  [][(MergeStep /\ Twins(packet[1])) =>
       LET edge == EdgesOf(packet[1])[1][1]
       IN  (\/ ~Has(graph, edge)
            \/ Get(graph, edge).timestamp < Items(packet[1])[1][2].timestamp
            \/ Get(graph, edge).timestamp < Items(packet[1])[2][2].timestamp)
             => Get(graph', edge) = NewerTwin(packet[1])]_vars

\* ----------------------------------------------------------------- C30
\* the threads that are inside "with graph_lock:"
Inside ==
  {t \in {"rx", "cl", "cmd"} :
     \/ t = "rx" /\ InMerge
     \/ t = "cl" /\ InCleaner
     \/ t = "cmd" /\ InReader}

\* C30: at most one thread is inside a with statement of graph_lock, the lock is
\* free exactly when none is, and a lock that is held is released again, also when
\* the merge loop, the scan or a reader raises inside its with statement: the lock
\* is never held for ever, so a thread that waits for it can get it.
C30_LockReleased ==
  /\ [](Cardinality(Inside) <= 1 /\ (lock = Free <=> Inside = {}))
  /\ (lock # Free) ~> (lock = Free)

\* the second entry of a datagram raised in the merge loop after the first was
\* merged, and the lock is free again with the receiver back in recvfrom
C30_Witness ==
  /\ out = RxError("merge")
  /\ pc.rx = "recvfrom" /\ lock = Free
  /\ Has(graph, <<Str(1), Str(2)>>)
  /\ Has(graph, <<Str(1), Str(3)>>) /\ NoStamp(Get(graph, <<Str(1), Str(3)>>))

====
